---- MODULE Spec2Model ----
(***************************************************************************)
(* A model of blog_generator/views.py: the generate_blog request handler   *)
(* and the three stages it sequences (yt_title, get_transcription,         *)
(* generate_blog_from_transcription), followed by the BlogPost insert.     *)
(*                                                                         *)
(* One invocation of generate_blog is followed from entry to its response. *)
(* The request, settings.DEBUG and the rows already in the BlogPost table  *)
(* are drawn in Init; the outcome of every external call (yt-dlp, the      *)
(* speech-to-text service, the hosted model, the local summarizer, the     *)
(* database) is drawn when the call is made.                               *)
(***************************************************************************)
EXTENDS Integers, Sequences, FiniteSets, TLC

VARIABLES
    DEBUG,              \* settings.DEBUG
    BlogPost,           \* the BlogPost table: a sequence of rows, in insertion order
    request,            \* the request: method, user, body
    pc,                 \* the position of the invocation in generate_blog
    yt_link,            \* local of generate_blog
    title,              \* local of generate_blog
    transcription,      \* local of generate_blog / parameter of the summarizer
    blog_content,       \* local of generate_blog
    chunks,             \* local of the fallback path: the chunks not yet summarized
    summaries,          \* local of the fallback path
    new_blog_article,   \* local of generate_blog: the id of the created row, 0 if none
    response,           \* what the invocation returned (or raised)
    calls,              \* history: the calls made by the invocation, in order
    before,             \* history: the BlogPost table when the invocation began
    chunk_size,         \* the chunk size in use (max_chunk in generate_blog)
    media,              \* the files of settings.MEDIA_ROOT
    environ,            \* os.environ, the variables get_transcription reads
    aai_api_key,        \* aai.settings.api_key, a setting of the whole process
    audio_file,         \* local of get_transcription
    transcript          \* local of get_transcription

vars == <<DEBUG, BlogPost, request, pc, yt_link, title, transcription,
          blog_content, chunks, summaries, new_blog_article, response, calls,
          before, chunk_size, media, environ, aai_api_key, audio_file, transcript>>

(***************************************************************************)
(* Bounds of the model.                                                    *)
(***************************************************************************)
NumUsers == 2        \* registered users that may send the request
MaxChunks == 2       \* the longest transcript of a request, in chunks
MaxLen == 7          \* the longest text of the chunking specification
MaxChunkSize == 3    \* the largest small chunk size of the chunking specification

(***************************************************************************)
(* Python values: None, str (a sequence of one-character strings) and int  *)
(* (its decimal digits).                                                   *)
(***************************************************************************)
PyNone == [t |-> "None", s |-> <<>>]

PyStr(x) == [t |-> "str", s |-> x]

PyInt(digits) == [t |-> "int", s |-> digits]

\* Python's truth test of `not v` for None, str and int.
Not(v) ==
    \/ v.t = "None"
    \/ v.t = "str" /\ v.s = <<>>
    \/ v.t = "int" /\ v.s = <<"0">>

\* a or b
Or(a, b) == IF Not(a) THEN b ELSE a

Alphabet == <<"a", "b", "c", "d", "e", "f", "g">>

\* A text of n characters whose characters vary with the position.
Text(n) == [i \in 1..n |-> Alphabet[((i - 1) % Len(Alphabet)) + 1]]

\* A text of n spaces.
Blank(n) == [i \in 1..n |-> " "]

(***************************************************************************)
(* The request.                                                            *)
(***************************************************************************)
Anonymous == 0       \* request.user of a request without a logged-in user

Users == 1..NumUsers

Methods == {"GET", "POST"}

Links == {"https://youtu.be/a", "https://youtu.be/ab"}

NoLink == ""         \* marks a JSON object without the 'link' key

\* request.body by what json.loads makes of it: bytes that are not UTF-8, text
\* that is not JSON, or a JSON value of one of the JSON types; an object has
\* the 'link' key or lacks it.
Bodies ==
    {[json |-> k, link |-> NoLink] :
        k \in {"bad_utf8", "malformed", "object", "array", "string", "number", "null"}}
    \cup {[json |-> "object", link |-> l] : l \in Links}

Requests == [method : Methods, user : {Anonymous} \cup Users, body : Bodies]

\* A variant of is_authenticated: the test of lines 36-37 lets every user through.
EveryoneAuthenticated(user) == TRUE

\* request.user.is_authenticated
is_authenticated(user) == user # Anonymous

\* data = json.loads(request.body); yt_link = data['link']: the exception the two
\* lines raise ("" when none) and the link they yield.
ParseLink(body) ==
    CASE body.json = "bad_utf8"  -> [exc |-> "UnicodeDecodeError", link |-> NoLink]
      [] body.json = "malformed" -> [exc |-> "JSONDecodeError", link |-> NoLink]
      [] body.json = "object"    ->
            IF body.link = NoLink
            THEN [exc |-> "KeyError", link |-> NoLink]
            ELSE [exc |-> "", link |-> body.link]
      [] OTHER                   -> [exc |-> "TypeError", link |-> NoLink]

\* except (KeyError, json.JSONDecodeError)
ParseCaught == {"KeyError", "JSONDecodeError"}

(***************************************************************************)
(* Responses.                                                              *)
(***************************************************************************)
NoResponse == [kind |-> "none", status |-> 0, keys |-> {}, error |-> "", content |-> PyNone]

\* JsonResponse({'error': msg}, status=status)
JsonError(msg, status) ==
    [kind |-> "json", status |-> status, keys |-> {"error"}, error |-> msg, content |-> PyNone]

\* JsonResponse({'content': blog_content})
JsonContent(body) ==
    [kind |-> "json", status |-> 200, keys |-> {"content"}, error |-> "", content |-> body]

\* The handler of `except Exception as e`, lines 74-78.
InternalError(e) ==
    IF DEBUG
    THEN [kind |-> "json", status |-> 500, keys |-> {"error", "trace"}, error |-> e,
          content |-> PyNone]
    ELSE JsonError("Internal server error", 500)

\* An exception that leaves generate_blog: the framework answers with its own
\* error page, not with a JsonResponse.
Uncaught(e) ==
    [kind |-> "exception", status |-> 500, keys |-> {}, error |-> e, content |-> PyNone]

AuthenticationRequired == JsonError("Authentication required", 401)

InvalidInput == JsonError("Invalid data sent", 400)

TitleLookupFailed ==
    JsonError("Failed to fetch YouTube title (invalid link or network error)", 400)

TranscriptionFailed == JsonError("Failed to get transcript", 500)

SummarizationFailed == JsonError("Failed to generate blog article", 500)

\* A variant of MethodNotAllowed: the status of a bad request.
MethodNotAllowedAs400 == JsonError("Invalid request method", 400)

MethodNotAllowed == JsonError("Invalid request method", 405)

(***************************************************************************)
(* Stage 1: yt_title.                                                      *)
(***************************************************************************)
\* The title the video-metadata service has for a link.
VideoTitle(link) == PyStr(<<"Title of ", link>>)

\* What can happen inside yt_title.
YtTitleOutcomes == {"import_error", "extract_error", "no_title", "empty_title", "title"}

\* The value yt_title returns on each outcome.
yt_title(link, outcome) ==
    CASE outcome = "import_error"  -> PyNone          \* lines 83-86
      [] outcome = "extract_error" -> PyNone          \* lines 93-94
      [] outcome = "no_title"      -> PyNone          \* info.get('title') of no title
      [] outcome = "empty_title"   -> PyStr(<<>>)
      [] outcome = "title"         -> VideoTitle(link)

(***************************************************************************)
(* Stage 2: get_transcription.                                             *)
(***************************************************************************)
\* max_chunk of the fallback path, line 208.
max_chunk == 1000

\* The lengths of the transcripts the speech-to-text service returns: of each
\* number of chunks up to MaxChunks, one that ends a chunk early and one that
\* fills its last chunk.
TranscriptLens ==
    {(k - 1) * max_chunk + 1 : k \in 1..MaxChunks} \cup {k * max_chunk : k \in 1..MaxChunks}

\* transcript.text: absent, empty, only white space, or a text.
TranscriptTexts ==
    {PyNone, PyStr(<<>>), PyStr(Blank(3))} \cup {PyStr(Text(n)) : n \in TranscriptLens}

\* What can happen inside get_transcription before the text is extracted.
GetTranscriptionOutcomes == {"no_audio", "missing_file", "no_key", "transcribe_error", "text"}

\* The value get_transcription returns on each outcome.
get_transcription(outcome, text) ==
    CASE outcome = "no_audio"         -> PyNone       \* lines 129-132
      [] outcome = "missing_file"     -> PyNone       \* lines 134-137
      [] outcome = "no_key"           -> PyNone       \* lines 146-149
      [] outcome = "transcribe_error" -> PyNone       \* lines 157-162
      [] outcome = "text"             -> text         \* lines 165-174

\* A text that is not a string: the numbers 0 and 5.
NonTexts == {PyInt(<<"0">>), PyInt(<<"5">>)}

\* Line 173: len(text) if text else 0 raises TypeError for a text that is true
\* and has no length.
LogLengthRaises(text) == ~Not(text) /\ text.t = "int"

(***************************************************************************)
(* The inside of get_transcription: download_audio, the environment, the   *)
(* speech-to-text call and the extraction of the text.                     *)
(***************************************************************************)
\* info.get('id'): the identifier the platform has for the video of a link.
VideoId(link) == IF link = "https://youtu.be/a" THEN <<"a">> ELSE <<"a", "b">>

VideoIds == {VideoId(link) : link \in Links}

\* A file of MEDIA_ROOT: its name (the characters of the stem, then the
\* extension), the video whose audio it holds, and its size in bytes.
File(stem, ext, video, size) == [name |-> stem \o <<ext>>, video |-> video, size |-> size]

\* None, where a path is expected.
NoFile == [name |-> <<>>, video |-> <<>>, size |-> 0]

\* The sizes of a written file: empty or not.
FileSizes == {0, 1}

\* f"{video_id}.mp3", line 117.
Mp3Name(video_id) == video_id \o <<".mp3">>

\* fname.startswith(prefix)
startswith(fname, prefix) ==
    Len(fname) >= Len(prefix) /\ SubSeq(fname, 1, Len(prefix)) = prefix

\* fname.endswith(ext), for an extension.
endswith(fname, ext) == fname # <<>> /\ fname[Len(fname)] = ext

\* The files earlier invocations left in MEDIA_ROOT, which nothing removes.
EarlierFiles == {File(v, ".mp3", v, 1) : v \in VideoIds}

MediaDirs == SUBSET EarlierFiles

\* What can happen inside download_audio up to the return of extract_info.
DownloadOutcomes == {"import_error", "extract_error", "written", "no_mp3"}

\* MEDIA_ROOT after ydl.extract_info(link, download=True), line 115: on
\* "written" the post-processor has left <id>.mp3, in place of a file of that
\* name; on "no_mp3" extract_info returns and has left no file of that name.
Downloaded(dir, video_id, outcome, size) ==
    IF outcome = "written"
    THEN {f \in dir : f.name # Mp3Name(video_id)}
            \cup {File(video_id, ".mp3", video_id, size)}
    ELSE dir

\* The values download_audio can return, from the directory extract_info left:
\* the file of the exact name, else the first file of os.listdir (of any
\* order) that starts with the id and ends with .mp3, else None.
download_audio(dir, video_id, outcome) ==
    IF outcome \in {"import_error", "extract_error"}         \* lines 97-100, 125-126
    THEN {NoFile}
    ELSE LET exact == {f \in dir : f.name = Mp3Name(video_id)}                  \* 117-119
             scan  == {f \in dir : startswith(f.name, video_id)
                                      /\ endswith(f.name, ".mp3")}             \* 121-123
         IN  IF exact # {} THEN exact
             ELSE IF scan # {} THEN scan
             ELSE {NoFile}                                                      \* 124

\* os.environ: a variable that is not set reads None (os.getenv).
Environs ==
    [ASSEMBLY_KEY             : {PyNone, PyStr(<<>>), PyStr(<<"key1">>)},
     ASSEMBLYAI_API_KEY       : {PyNone, PyStr(<<>>), PyStr(<<"key2">>)},
     HUGGINGFACEHUB_API_TOKEN : {PyNone, PyStr(<<"hf1">>)},
     HUGGINGFACE_TOKEN        : {PyNone, PyStr(<<"hf2">>)}]

\* A variant of assembly_key that reads ASSEMBLYAI_API_KEY first.
assembly_key_reversed(env) == Or(env.ASSEMBLYAI_API_KEY, env.ASSEMBLY_KEY)

\* Line 146.
assembly_key(env) == Or(env.ASSEMBLY_KEY, env.ASSEMBLYAI_API_KEY)

\* Line 153.
hf_token(env) == Or(env.HUGGINGFACEHUB_API_TOKEN, env.HUGGINGFACE_TOKEN)

\* What transcriber.transcribe returns: an object with a text attribute, a
\* mapping without one (its get('text') is None of no such key), or a value
\* with neither, by its str().
NoTranscript == [shape |-> "none", text |-> PyNone, str |-> <<>>]

TextValues == {PyNone, PyStr(<<>>), PyStr(<<"h", "i">>)} \cup NonTexts

TranscriptObjects ==
    {[shape |-> "object", text |-> v, str |-> <<"<Transcript>">>] : v \in TextValues}
        \cup {[shape |-> "mapping", text |-> v, str |-> <<"{...}">>] : v \in TextValues}
        \cup {[shape |-> "other", text |-> PyNone, str |-> <<"None">>]}

\* Lines 165-171: transcript.text, else transcript.get('text'), else
\* str(transcript).
ExtractText(tr) ==
    CASE tr.shape = "object"  -> tr.text
      [] tr.shape = "mapping" -> tr.text
      [] OTHER                -> PyStr(tr.str)

(***************************************************************************)
(* Stage 3: generate_blog_from_transcription.                              *)
(***************************************************************************)
\* What chain.invoke returns when it does not raise.
PrimaryResults == {PyNone, PyStr(<<>>), PyStr(<<"P">>)}

\* range(start, stop, step), as a sequence.
RECURSIVE Range(_, _, _)
Range(start, stop, step) ==
    IF start >= stop THEN <<>> ELSE <<start>> \o Range(start + step, stop, step)

\* s[i:j] for 0 <= i <= j: the slice is cut at the end of s.
Slice(s, i, j) == SubSeq(s, i + 1, IF j < Len(s) THEN j ELSE Len(s))

\* A variant of ChunkList: range(0, len(transcription) - 1, size), which loses a
\* last chunk of one character.
ChunkListShortRange(s, size) ==
    LET starts == Range(0, Len(s) - 1, size)
    IN  [k \in 1..Len(starts) |-> Slice(s, starts[k], starts[k] + size)]

\* [transcription[i:i+size] for i in range(0, len(transcription), size)]
ChunkList(s, size) ==
    LET starts == Range(0, Len(s), size)
    IN  [k \in 1..Len(starts) |-> Slice(s, starts[k], starts[k] + size)]

\* The texts the local summarizer makes of a chunk (do_sample=False).
SummaryOf(chunk) == <<"S", chunk[1], chunk[Len(chunk)]>>

GeneratedOf(chunk) == <<"G", chunk[1], chunk[Len(chunk)]>>

SummarizerOut(shape, n, keys, st, gt) ==
    [shape |-> shape, n |-> n, keys |-> keys, summary_text |-> st, generated_text |-> gt]

\* What summarizer(chunk, ...) can do: raise, return something that is no list,
\* an empty list, or a list whose first element is a dict with or without the
\* keys 'summary_text' and 'generated_text'; a summary may be the empty string.
SummarizerOutputs(chunk) ==
    {SummarizerOut("raise", 0, {}, <<>>, <<>>),
     SummarizerOut("dict", 0, {}, <<>>, <<>>),
     SummarizerOut("list", 0, {}, <<>>, <<>>),
     SummarizerOut("list", 1, {}, <<>>, <<>>),
     SummarizerOut("list", 1, {"summary_text"}, <<>>, <<>>),
     SummarizerOut("list", 1, {"summary_text"}, SummaryOf(chunk), <<>>),
     SummarizerOut("list", 1, {"generated_text"}, <<>>, GeneratedOf(chunk)),
     SummarizerOut("list", 1, {"summary_text", "generated_text"},
                   SummaryOf(chunk), GeneratedOf(chunk))}

\* Lines 213-216: the summaries after the output of one chunk.
Collect(sums, out) ==
    IF out.shape = "list" /\ out.n > 0 /\ "summary_text" \in out.keys
    THEN Append(sums, out.summary_text)
    ELSE IF out.shape = "list" /\ out.n > 0 /\ "generated_text" \in out.keys
         THEN Append(sums, out.generated_text)
         ELSE sums

\* sep.join(list)
RECURSIVE Join(_, _)
Join(sep, list) ==
    IF list = <<>> THEN <<>>
    ELSE IF Len(list) = 1 THEN list[1]
         ELSE list[1] \o sep \o Join(sep, Tail(list))

BlankLine == <<"\n", "\n">>

\* Lines 217-219: what the fallback path returns after its loop.
FallbackResult(sums) == IF sums # <<>> THEN PyStr(Join(BlankLine, sums)) ELSE PyNone

(***************************************************************************)
(* Persistence: the BlogPost table.                                        *)
(***************************************************************************)
NoRow ==
    [id |-> 0, user |-> Anonymous, youtube_title |-> PyNone, youtube_link |-> NoLink,
     generated_content |-> PyNone]

\* A variant of NewRow: the row is attributed to the first user, whoever asks.
NewRowFirstUser(table, user, t, link, content) ==
    [id |-> Len(table) + 1, user |-> 1, youtube_title |-> t, youtube_link |-> link,
     generated_content |-> content]

\* The row BlogPost.objects.create(...) inserts, lines 64-69.
NewRow(table, user, t, link, content) ==
    [id |-> Len(table) + 1, user |-> user, youtube_title |-> t, youtube_link |-> link,
     generated_content |-> content]

\* The exceptions the database can raise.
DbErrors == {"OperationalError"}

\* A row of an earlier invocation.
ExistingRow ==
    NewRow(<<>>, 1, VideoTitle("https://youtu.be/a"), "https://youtu.be/a", PyStr(<<"P">>))

InitialTables == {<<>>, <<ExistingRow>>}

(***************************************************************************)
(* generate_blog: the test after each stage.  Each gives the response the  *)
(* handler returns, NoResponse when it goes on to the next stage.          *)
(***************************************************************************)
\* A variant of TitleCheck: `if title is None`, which lets an empty title through.
TitleCheckNoneOnly(t) == IF t.t = "None" THEN TitleLookupFailed ELSE NoResponse

\* Lines 50-51: if not title
TitleCheck(t) == IF Not(t) THEN TitleLookupFailed ELSE NoResponse

\* Lines 55-56: if not transcription
TranscriptionCheck(t) == IF Not(t) THEN TranscriptionFailed ELSE NoResponse

\* A variant of ContentCheck: the test of lines 60-61 left out.
ContentCheckMissing(content) == NoResponse

\* A variant of ContentCheck: `if blog_content is None`, which lets an empty
\* article through.
ContentCheckNoneOnly(content) == IF content.t = "None" THEN SummarizationFailed ELSE NoResponse

\* Lines 60-61: if not blog_content
ContentCheck(content) == IF Not(content) THEN SummarizationFailed ELSE NoResponse

\* An entry of the history of calls: the function, and whether it raised.
Call(fn) == [fn |-> fn, raised |-> FALSE]

Raised(fn) == [fn |-> fn, raised |-> TRUE]

(***************************************************************************)
(* The invocation.                                                         *)
(***************************************************************************)
\* The variables of the inside of get_transcription.
acquirer == <<media, environ, aai_api_key, audio_file, transcript>>

NoEnviron ==
    [ASSEMBLY_KEY |-> PyNone, ASSEMBLYAI_API_KEY |-> PyNone,
     HUGGINGFACEHUB_API_TOKEN |-> PyNone, HUGGINGFACE_TOKEN |-> PyNone]

\* Where get_transcription is taken by what it returns, its inside is left out.
OutsideTranscription ==
    /\ media = {}
    /\ environ = NoEnviron
    /\ aai_api_key = PyNone
    /\ audio_file = NoFile
    /\ transcript = NoTranscript

Init ==
    /\ OutsideTranscription
    /\ DEBUG \in BOOLEAN
    /\ BlogPost \in InitialTables
    /\ before = BlogPost
    /\ chunk_size = max_chunk
    /\ request \in Requests
    /\ pc = "generate_blog"
    /\ yt_link = NoLink
    /\ title = PyNone
    /\ transcription = PyNone
    /\ blog_content = PyNone
    /\ chunks = <<>>
    /\ summaries = <<>>
    /\ new_blog_article = NoRow
    /\ response = NoResponse
    /\ calls = <<>>

\* What no step of an invocation changes, outside get_transcription.
fixed == <<DEBUG, request, before, chunk_size, acquirer>>

\* return r
Respond(r) == response' = r /\ pc' = "done"

\* Line 80: the request is no POST.
RejectMethod ==
    /\ pc = "generate_blog"
    /\ request.method # "POST"
    /\ Respond(MethodNotAllowed)
    /\ UNCHANGED <<fixed, BlogPost, yt_link, title, transcription, blog_content,
                   chunks, summaries, new_blog_article, calls>>

\* Lines 36-37: a POST without a logged-in user.
RejectAnonymous ==
    /\ pc = "generate_blog"
    /\ request.method = "POST"
    /\ ~is_authenticated(request.user)
    /\ Respond(AuthenticationRequired)
    /\ UNCHANGED <<fixed, BlogPost, yt_link, title, transcription, blog_content,
                   chunks, summaries, new_blog_article, calls>>

\* Lines 41-45: the body is parsed and the link taken from it.  An exception of
\* the except clause gives the 400 response; any other exception leaves
\* generate_blog, since these lines are outside the try block of line 47.
ParseBody ==
    /\ pc = "generate_blog"
    /\ request.method = "POST"
    /\ is_authenticated(request.user)
    /\ LET parsed == ParseLink(request.body)
       IN  IF parsed.exc = ""
           THEN /\ yt_link' = parsed.link
                /\ pc' = "yt_title"
                /\ UNCHANGED response
           ELSE /\ Respond(IF parsed.exc \in ParseCaught
                           THEN InvalidInput
                           ELSE Uncaught(parsed.exc))
                /\ UNCHANGED yt_link
    /\ UNCHANGED <<fixed, BlogPost, title, transcription, blog_content,
                   chunks, summaries, new_blog_article, calls>>

\* Lines 49-51: title = yt_title(yt_link), then the test of the title.
TitleStage ==
    /\ pc = "yt_title"
    /\ \E outcome \in YtTitleOutcomes :
          /\ title' = yt_title(yt_link, outcome)
          /\ IF TitleCheck(title') # NoResponse
             THEN Respond(TitleCheck(title'))
             ELSE pc' = "get_transcription" /\ UNCHANGED response
    /\ calls' = Append(calls, Call("yt_title"))
    /\ UNCHANGED <<fixed, BlogPost, yt_link, transcription, blog_content,
                   chunks, summaries, new_blog_article>>

\* Lines 54-56: transcription = get_transcription(yt_link), then its test.
TranscriptionStage ==
    /\ pc = "get_transcription"
    /\ \E outcome \in GetTranscriptionOutcomes, text \in TranscriptTexts \cup NonTexts :
          IF outcome = "text" /\ LogLengthRaises(text)
          THEN \* line 173 raises, and line 74 catches it
               /\ Respond(InternalError("TypeError"))
               /\ calls' = Append(calls, Raised("get_transcription"))
               /\ UNCHANGED transcription
          ELSE /\ transcription' = get_transcription(outcome, text)
               /\ IF TranscriptionCheck(transcription') # NoResponse
                  THEN Respond(TranscriptionCheck(transcription'))
                  ELSE pc' = "generate_blog_from_transcription" /\ UNCHANGED response
               /\ calls' = Append(calls, Call("get_transcription"))
    /\ UNCHANGED <<fixed, BlogPost, yt_link, title, blog_content,
                   chunks, summaries, new_blog_article>>

\* Lines 59-61: blog_content = <what generate_blog_from_transcription returned>,
\* then its test.
ReturnContent(content) ==
    /\ blog_content' = content
    /\ IF ContentCheck(content) # NoResponse
       THEN Respond(ContentCheck(content))
       ELSE pc' = "create" /\ UNCHANGED response

\* Lines 178-196: the primary path; chain.invoke returns, or an exception is
\* raised on the way, which starts the fallback path.
PrimaryPath ==
    /\ pc = "generate_blog_from_transcription"
    /\ \/ /\ pc' = "fallback"
          /\ calls' = calls \o <<Call("generate_blog_from_transcription"), Raised("primary")>>
          /\ UNCHANGED <<blog_content, response>>
       \/ /\ \E generated_content \in PrimaryResults : ReturnContent(generated_content)
          /\ calls' = calls \o <<Call("generate_blog_from_transcription"), Call("primary")>>
    /\ UNCHANGED <<fixed, BlogPost, yt_link, title, transcription,
                   chunks, summaries, new_blog_article>>

\* Lines 200-210: the fallback path loads the local summarizer and cuts the
\* transcript into chunks; an exception on the way makes it return None.
FallbackPath ==
    /\ pc = "fallback"
    /\ \/ /\ ReturnContent(PyNone)
          /\ calls' = Append(calls, Raised("fallback"))
          /\ UNCHANGED <<chunks, summaries>>
       \/ /\ chunks' = ChunkList(transcription.s, max_chunk)
          /\ summaries' = <<>>
          /\ pc' = "summarize"
          /\ calls' = Append(calls, Call("fallback"))
          /\ UNCHANGED <<blog_content, response>>
    /\ UNCHANGED <<fixed, BlogPost, yt_link, title, transcription, new_blog_article>>

\* Lines 211-216: one round of the loop; an exception of the summarizer makes
\* the fallback path return None (line 220).
SummarizeChunk ==
    /\ pc = "summarize"
    /\ chunks # <<>>
    /\ \E out \in SummarizerOutputs(Head(chunks)) :
          IF out.shape = "raise"
          THEN /\ ReturnContent(PyNone)
               /\ calls' = Append(calls, Raised("summarizer"))
               /\ UNCHANGED <<chunks, summaries>>
          ELSE /\ summaries' = Collect(summaries, out)
               /\ chunks' = Tail(chunks)
               /\ calls' = Append(calls, Call("summarizer"))
               /\ UNCHANGED <<blog_content, response, pc>>
    /\ UNCHANGED <<fixed, BlogPost, yt_link, title, transcription, new_blog_article>>

\* Lines 217-219: the loop is over.
FallbackReturn ==
    /\ pc = "summarize"
    /\ chunks = <<>>
    /\ ReturnContent(FallbackResult(summaries))
    /\ UNCHANGED <<fixed, BlogPost, yt_link, title, transcription,
                   chunks, summaries, new_blog_article, calls>>

\* Lines 64-69: BlogPost.objects.create(...) inserts the row, or raises and the
\* handler of line 74 answers.
CreateRow ==
    /\ pc = "create"
    /\ \/ \E e \in DbErrors :
             /\ Respond(InternalError(e))
             /\ calls' = Append(calls, Raised("BlogPost.objects.create"))
             /\ UNCHANGED <<BlogPost, new_blog_article>>
       \/ LET row == NewRow(BlogPost, request.user, title, yt_link, blog_content)
          IN  /\ BlogPost' = Append(BlogPost, row)
              /\ new_blog_article' = row
              /\ pc' = "save"
              /\ calls' = Append(calls, Call("BlogPost.objects.create"))
              /\ UNCHANGED response
    /\ UNCHANGED <<fixed, yt_link, title, transcription, blog_content, chunks, summaries>>

\* Lines 70-73: new_blog_article.save() writes the row again, then the content
\* is returned; or save raises and the handler of line 74 answers.
SaveRow ==
    /\ pc = "save"
    /\ \/ \E e \in DbErrors :
             /\ Respond(InternalError(e))
             /\ calls' = Append(calls, Raised("new_blog_article.save"))
             /\ UNCHANGED BlogPost
       \/ /\ BlogPost' = [BlogPost EXCEPT ![new_blog_article.id] = new_blog_article]
          /\ Respond(JsonContent(blog_content))
          /\ calls' = Append(calls, Call("new_blog_article.save"))
    /\ UNCHANGED <<fixed, yt_link, title, transcription, blog_content,
                   chunks, summaries, new_blog_article>>

Next ==
    \/ RejectMethod
    \/ RejectAnonymous
    \/ ParseBody
    \/ TitleStage
    \/ TranscriptionStage
    \/ PrimaryPath
    \/ FallbackPath
    \/ SummarizeChunk
    \/ FallbackReturn
    \/ CreateRow
    \/ SaveRow

Spec == Init /\ [][Next]_vars

(***************************************************************************)
(* The chunking of line 209 on its own: a text and a chunk size are drawn, *)
(* and one step cuts the text.  Small sizes are tried on every text over   *)
(* two characters up to MaxLen; max_chunk on the lengths around its        *)
(* multiples.                                                              *)
(***************************************************************************)
SmallTexts == UNION {[1..n -> {"a", "b"}] : n \in 0..MaxLen}

LargeLens == {n \in {k * max_chunk + d : k \in 0..MaxChunks, d \in -1..1} : n >= 0}

ChunkInputs ==
    {<<t, c>> : t \in SmallTexts, c \in 1..MaxChunkSize}
    \cup {<<Text(n), max_chunk>> : n \in LargeLens}

InitChunk ==
    /\ OutsideTranscription
    /\ \E input \in ChunkInputs :
          /\ transcription = PyStr(input[1])
          /\ chunk_size = input[2]
    /\ pc = "chunking"
    /\ chunks = <<>>
    /\ DEBUG = FALSE
    /\ BlogPost = <<>>
    /\ before = <<>>
    /\ request = [method |-> "POST", user |-> 1, body |-> [json |-> "object", link |-> NoLink]]
    /\ yt_link = NoLink
    /\ title = PyNone
    /\ blog_content = PyNone
    /\ summaries = <<>>
    /\ new_blog_article = NoRow
    /\ response = NoResponse
    /\ calls = <<>>

\* Line 209 with chunk_size for max_chunk.
ChunkStep ==
    /\ pc = "chunking"
    /\ chunks' = ChunkList(transcription.s, chunk_size)
    /\ pc' = "chunked"
    /\ UNCHANGED <<fixed, BlogPost, yt_link, title, transcription, blog_content,
                   summaries, new_blog_article, response, calls>>

NextChunk == ChunkStep

SpecChunk == InitChunk /\ [][NextChunk]_vars

(***************************************************************************)
(* get_transcription(yt_link) followed inside, from every directory and    *)
(* environment that earlier invocations and the deployment can have left.  *)
(***************************************************************************)
InitTranscription ==
    /\ yt_link \in Links
    /\ request = [method |-> "POST", user |-> 1,
                  body |-> [json |-> "object", link |-> yt_link]]
    /\ title = VideoTitle(yt_link)
    /\ pc = "download_audio"
    /\ media \in MediaDirs
    /\ environ \in Environs
    \* aai.settings.api_key as the process start or an earlier invocation left it
    /\ aai_api_key \in {PyNone} \cup {k \in {assembly_key(environ)} : ~Not(k)}
    /\ audio_file = NoFile
    /\ transcript = NoTranscript
    /\ transcription = PyNone
    /\ DEBUG = FALSE
    /\ BlogPost = <<>>
    /\ before = <<>>
    /\ chunk_size = max_chunk
    /\ blog_content = PyNone
    /\ chunks = <<>>
    /\ summaries = <<>>
    /\ new_blog_article = NoRow
    /\ response = NoResponse
    /\ calls = <<>>

\* What no step of get_transcription changes.
caller == <<DEBUG, request, before, chunk_size, BlogPost, yt_link, title, blog_content,
            chunks, summaries, new_blog_article, response>>

\* return v, from get_transcription
Return(v) == transcription' = v /\ pc' = "returned"

\* Lines 129-143: audio_file = download_audio(link) and the tests of the file.
DownloadAudio ==
    /\ pc = "download_audio"
    /\ \E outcome \in DownloadOutcomes, size \in FileSizes :
          LET dir == Downloaded(media, VideoId(yt_link), outcome, size)
          IN  /\ media' = dir
              /\ \E f \in download_audio(dir, VideoId(yt_link), outcome) :
                    /\ audio_file' = f
                    /\ IF f = NoFile \/ f \notin dir     \* lines 130, 135
                       THEN Return(PyNone)
                       ELSE pc' = "assembly_key" /\ UNCHANGED transcription
    /\ calls' = Append(calls, Call("download_audio"))
    /\ UNCHANGED <<caller, environ, aai_api_key, transcript>>

\* Lines 145-155: the API key and the Hugging Face token, from the environment.
LoadKey ==
    /\ pc = "assembly_key"
    /\ IF Not(assembly_key(environ))
       THEN Return(PyNone) /\ UNCHANGED <<aai_api_key, environ>>       \* 147-149
       ELSE /\ aai_api_key' = assembly_key(environ)                    \* 150
            /\ environ' = IF ~Not(hf_token(environ))                   \* 154-155
                          THEN [environ EXCEPT !.HUGGINGFACEHUB_API_TOKEN = hf_token(environ)]
                          ELSE environ
            /\ pc' = "transcribe"
            /\ UNCHANGED transcription
    /\ calls' = Append(calls, Call("os.getenv"))
    /\ UNCHANGED <<caller, media, audio_file, transcript>>

\* Lines 157-162: transcript = transcriber.transcribe(audio_file)
Transcribe ==
    /\ pc = "transcribe"
    /\ \/ /\ calls' = Append(calls, Raised("transcribe"))
          /\ Return(PyNone)
          /\ UNCHANGED transcript
       \/ /\ \E tr \in TranscriptObjects : transcript' = tr
          /\ calls' = Append(calls, Call("transcribe"))
          /\ pc' = "extract_text"
          /\ UNCHANGED transcription
    /\ UNCHANGED <<caller, media, environ, aai_api_key, audio_file>>

\* Lines 164-174: the text of the transcript, the log of its length, return text.
ReturnText ==
    /\ pc = "extract_text"
    /\ LET text == ExtractText(transcript)
       IN  IF LogLengthRaises(text)
           THEN pc' = "raised" /\ UNCHANGED transcription              \* 173
           ELSE Return(text)                                           \* 174
    /\ UNCHANGED <<caller, acquirer, calls>>

NextTranscription == DownloadAudio \/ LoadKey \/ Transcribe \/ ReturnText

SpecTranscription == InitTranscription /\ [][NextTranscription]_vars

(***************************************************************************)
(* What the claims speak of.                                               *)
(***************************************************************************)
\* fn was called by the invocation.
Invoked(fn) == \E i \in DOMAIN calls : calls[i].fn = fn

\* A call of fn raised.
HasRaised(fn) == \E i \in DOMAIN calls : calls[i].fn = fn /\ calls[i].raised

\* A call of fn returned.
HasReturned(fn) == \E i \in DOMAIN calls : calls[i].fn = fn /\ ~calls[i].raised

Stages ==
    {"yt_title", "get_transcription", "generate_blog_from_transcription",
     "BlogPost.objects.create", "new_blog_article.save"}

IsStage(c) == c.fn \in Stages

\* The stages the invocation ran, in order.
StageTrace ==
    LET ran == SelectSeq(calls, IsStage) IN [i \in DOMAIN ran |-> ran[i].fn]

\* None, or a string of nothing but white space (the empty string included).
IsBlank(v) == v.t = "None" \/ \A i \in DOMAIN v.s : v.s[i] = " "

NonEmpty(x) == x # <<>>

RECURSIVE Concat(_)
Concat(list) == IF list = <<>> THEN <<>> ELSE Head(list) \o Concat(Tail(list))

(***************************************************************************)
(* The claims.                                                             *)
(***************************************************************************)

\* C1: a POST of a caller who is not logged in is answered with 401 and an
\* 'error' field whatever its body is; the body is not parsed, no stage is
\* called and no article is stored.
C1_UnauthenticatedPostRejected ==
    (request.method = "POST" /\ request.user = Anonymous) =>
        /\ pc \in {"generate_blog", "done"}
        /\ calls = <<>>
        /\ yt_link = NoLink
        /\ BlogPost = before
        /\ pc = "done" =>
              /\ response = AuthenticationRequired
              /\ response.kind = "json"
              /\ response.status = 401
              /\ "error" \in response.keys

\* C1, reached: an anonymous POST with a valid link was answered 401.
C1_Witness ==
    /\ pc = "done"
    /\ request.method = "POST"
    /\ request.user = Anonymous
    /\ request.body.link \in Links
    /\ response.status = 401

\* C2: an authenticated POST whose body is malformed or is JSON of any shape
\* without the 'link' field is answered with 400 and an 'error' field, and no
\* external call is made.
C2_BodyWithoutLinkIsInvalidInput ==
    (/\ pc = "done"
     /\ request.method = "POST"
     /\ request.user # Anonymous
     /\ request.body.json \in {"malformed", "object", "array", "string", "number", "null"}
     /\ request.body.link = NoLink) =>
        /\ response = InvalidInput
        /\ response.kind = "json"
        /\ response.status = 400
        /\ "error" \in response.keys
        /\ calls = <<>>

\* C3: when yt_title returns no title (None or the empty string), the
\* invocation ends with the 400 response of the title lookup, and neither
\* get_transcription nor generate_blog_from_transcription nor the creation of
\* the BlogPost is called.
C3_NoTitleStopsThePipeline ==
    (Invoked("yt_title") /\ (title.t = "None" \/ title.s = <<>>)) =>
        /\ pc = "done"
        /\ response = TitleLookupFailed
        /\ response.status = 400
        /\ calls = <<Call("yt_title")>>
        /\ BlogPost = before

\* C3, reached: yt_title returned the empty string and the invocation ended.
C3_Witness ==
    /\ pc = "done"
    /\ Invoked("yt_title")
    /\ title = PyStr(<<>>)
    /\ response.status = 400

\* C4: when get_transcription returns None, the empty string or a string of
\* white space only, the invocation ends with the 500 response of the
\* transcription, generate_blog_from_transcription is not called and no article
\* is stored.
C4_BlankTranscriptIsTranscriptionFailed ==
    (pc = "done" /\ HasReturned("get_transcription") /\ IsBlank(transcription)) =>
        /\ response = TranscriptionFailed
        /\ response.status = 500
        /\ ~Invoked("generate_blog_from_transcription")
        /\ BlogPost = before

\* C5: when the primary path raises, the fallback path is tried; and when the
\* fallback path has gone through its chunks with at least one non-empty
\* summary (and the persistence does not fail), the invocation succeeds with
\* exactly the non-empty summaries, in chunk order, joined by a blank line.
C5_FallbackJoinsNonEmptySummaries ==
    /\ (pc = "done" /\ HasRaised("primary")) => Invoked("fallback")
    /\ (/\ pc = "done"
        /\ HasReturned("fallback")
        /\ ~HasRaised("summarizer")
        /\ \E i \in DOMAIN summaries : summaries[i] # <<>>
        /\ ~HasRaised("BlogPost.objects.create")
        /\ ~HasRaised("new_blog_article.save")) =>
           /\ response.kind = "json"
           /\ response.status = 200
           /\ response.keys = {"content"}
           /\ response.content = PyStr(Join(BlankLine, SelectSeq(summaries, NonEmpty)))

\* C6: when the primary path raises and the fallback path raises or ends with
\* no summary, the invocation ends with the 500 response of the summarization,
\* which carries no content, and the table is as it was.
C6_BothPathsFailed ==
    (/\ HasRaised("primary")
     /\ \/ HasRaised("fallback")
        \/ HasRaised("summarizer")
        \/ HasReturned("fallback") /\ pc # "summarize" /\ summaries = <<>>) =>
        /\ pc = "done"
        /\ response = SummarizationFailed
        /\ response.status = 500
        /\ response.keys = {"error"}
        /\ response.content = PyNone
        /\ ~Invoked("BlogPost.objects.create")
        /\ BlogPost = before

\* C6, reached: the summarizer raised after an earlier chunk had given a summary.
C6_Witness ==
    /\ pc = "done"
    /\ HasRaised("primary")
    /\ HasRaised("summarizer")
    /\ summaries # <<>>

\* C7: an article of the invocation is in the table only if the invocation
\* returns the content: when it ends with anything else, the failure of either
\* persistence call included, the table is as it was.
C7_NoArticleWithoutSuccess ==
    (pc = "done" /\ ~(response.kind = "json" /\ response.status = 200)) =>
        BlogPost = before

\* C8: an invocation whose persistence succeeded added exactly one article,
\* with the requesting user, the title of the link, the link sent and the
\* content generated, answered 200 with that content, and ran the stages in
\* the order title, transcription, summarization, persistence, once each.
C8_SuccessStoresOneArticle ==
    (pc = "done" /\ HasReturned("new_blog_article.save")) =>
        /\ Len(BlogPost) = Len(before) + 1
        /\ SubSeq(BlogPost, 1, Len(before)) = before
        /\ LET row == BlogPost[Len(BlogPost)]
           IN  /\ row.user = request.user
               /\ row.user # Anonymous
               /\ row.youtube_title = VideoTitle(request.body.link)
               /\ row.youtube_link = request.body.link
               /\ row.youtube_link \in Links
               /\ row.generated_content = blog_content
        /\ blog_content.t = "str" /\ blog_content.s # <<>>
        /\ \/ blog_content \in PrimaryResults /\ ~HasRaised("primary")
           \/ blog_content = FallbackResult(summaries) /\ HasRaised("primary")
        /\ response.kind = "json"
        /\ response.status = 200
        /\ response.keys = {"content"}
        /\ response.content = blog_content
        /\ StageTrace = <<"yt_title", "get_transcription",
                          "generate_blog_from_transcription",
                          "BlogPost.objects.create", "new_blog_article.save">>

\* C8, reached: the second user's article, made by the fallback path from two
\* chunks, was added to a table that held an article.
C8_Witness ==
    /\ pc = "done"
    /\ response.status = 200
    /\ request.user = 2
    /\ before # <<>>
    /\ Len(summaries) = 2
    /\ response.content = PyStr(Join(BlankLine, summaries))

\* C9: every invocation ends with a JSON response that has a 'content' field
\* or an 'error' field and a status code; no exception leaves generate_blog.
C9_AlwaysStructuredResponse ==
    pc = "done" =>
        /\ response.kind = "json"
        /\ "content" \in response.keys \/ "error" \in response.keys
        /\ response.status \in {200, 400, 401, 405, 500}

\* C10: a text of length L cut with chunk size C gives ceil(L/C) chunks, each
\* but the last of length C, the last of length L mod C, or C when C divides
\* L, and the chunks put together in order are the text.
C10_ChunkingLaw ==
    pc = "chunked" =>
        LET L == Len(transcription.s)
            C == chunk_size
            n == Len(chunks)
        IN  /\ n = (L + C - 1) \div C
            /\ \A k \in 1..(n - 1) : Len(chunks[k]) = C
            /\ n > 0 => Len(chunks[n]) = (IF L % C = 0 THEN C ELSE L % C)
            /\ L = 0 => chunks = <<>>
            /\ Concat(chunks) = transcription.s

\* C10, reached: a text of two full chunks of max_chunk and one character more.
C10_Witness ==
    /\ pc = "chunked"
    /\ chunk_size = max_chunk
    /\ Len(chunks) = 3
    /\ Len(chunks[3]) = 1

\* The stage a call belongs to.
StageOf(fn) ==
    CASE fn = "yt_title" -> "title"
      [] fn = "get_transcription" -> "transcription"
      [] fn \in {"generate_blog_from_transcription", "primary", "fallback", "summarizer"}
            -> "summarization"
      [] fn \in {"BlogPost.objects.create", "new_blog_article.save"} -> "persistence"

FailureStages == {"title", "transcription", "summarization", "persistence"}

\* The stage whose failure ended the invocation: the stage of its last call.
FailedStage == StageOf(calls[Len(calls)].fn)

\* The responses the failures of a stage end with.
FailureResponses(stage) ==
    CASE stage = "title"         -> {TitleLookupFailed}
      [] stage = "transcription" -> {TranscriptionFailed, InternalError("TypeError")}
      [] stage = "summarization" -> {SummarizationFailed}
      [] stage = "persistence"   -> {InternalError(e) : e \in DbErrors}

\* C11: the response of an invocation that failed in one of the four stages
\* (title, transcription, summarization, persistence) is an error response
\* that no failure of another of the four stages ends with.
C11_FailureResponseTellsTheStage ==
    (pc = "done" /\ calls # <<>> /\ response.status # 200) =>
        /\ response.kind = "json"
        /\ "error" \in response.keys
        /\ \A stage \in FailureStages \ {FailedStage} :
              response \notin FailureResponses(stage)

\* C12: the file download_audio returns to an invocation holds the audio of
\* the video of that invocation, never that of another video.
C12_ReturnedFileIsOfTheVideo ==
    (Invoked("download_audio") /\ audio_file # NoFile) =>
        audio_file.video = VideoId(yt_link)

\* C13: no step of an invocation writes aai.settings.api_key or os.environ,
\* the variables of the whole process that the invocations read.
C13_NoProcessWideWrite ==
    [][aai_api_key' = aai_api_key /\ environ' = environ]_vars

\* C14: an invocation whose method is not POST calls no stage, stores nothing
\* and ends with status 405 and an 'error' field, whoever the caller is; and
\* only a POST is answered 401.
C14_NonPostIs405 ==
    /\ request.method # "POST" =>
          /\ calls = <<>>
          /\ BlogPost = before
          /\ pc \in {"generate_blog", "done"}
          /\ pc = "done" =>
                /\ response.kind = "json"
                /\ response.status = 405
                /\ "error" \in response.keys
    /\ response.status = 401 => request.method = "POST"

\* C14, reached: a GET of an anonymous caller answered 405.
C14_Witness ==
    /\ pc = "done"
    /\ request.method = "GET"
    /\ request.user = Anonymous
    /\ response.status = 405

\* v is a value that is set and not empty.
Present(v) == v.t = "str" /\ v.s # <<>>

\* C15: the API key the speech-to-text client is given is ASSEMBLY_KEY when
\* that is set and not empty, else ASSEMBLYAI_API_KEY when that is; and when
\* neither is, get_transcription returns None and the service is not called.
C15_FirstNonEmptyKey ==
    LET first == IF Present(environ.ASSEMBLY_KEY)
                 THEN environ.ASSEMBLY_KEY
                 ELSE environ.ASSEMBLYAI_API_KEY
    IN  /\ (Invoked("os.getenv") /\ Present(first)) => aai_api_key = first
        /\ Invoked("transcribe") => Present(first) /\ aai_api_key = first
        /\ (Invoked("os.getenv") /\ ~Present(first)) =>
              /\ pc = "returned"
              /\ transcription = PyNone
              /\ ~Invoked("transcribe")

\* C15, reached: ASSEMBLY_KEY is set and empty, and the service was called
\* with the key of ASSEMBLYAI_API_KEY.
C15_Witness ==
    /\ environ.ASSEMBLY_KEY = PyStr(<<>>)
    /\ Invoked("transcribe")
    /\ aai_api_key = PyStr(<<"key2">>)

\* C16: the speech-to-text service is called only with a file that exists and
\* is not empty; when download_audio found no file, get_transcription returns
\* None without a call of the service.
C16_OnlyNonEmptyFileIsSubmitted ==
    /\ (Invoked("download_audio") /\ audio_file = NoFile) =>
          /\ pc = "returned"
          /\ transcription = PyNone
          /\ ~Invoked("transcribe")
    /\ Invoked("transcribe") =>
          /\ audio_file \in media
          /\ audio_file.size > 0

\* C17: once the speech-to-text call has returned, get_transcription raises
\* nothing, and what it returns is the text attribute of the result, else its
\* get('text'), else its str().
C17_NoRaiseAfterTranscribe ==
    (HasReturned("transcribe") /\ audio_file.size > 0) =>
        /\ pc \in {"extract_text", "returned"}
        /\ pc = "returned" =>
              transcription = (CASE transcript.shape \in {"object", "mapping"} -> transcript.text
                                 [] OTHER -> PyStr(transcript.str))

\* C18: once the primary path has returned without raising, the fallback path
\* and its summarizer are not called in the invocation; and when what it
\* returned is None or empty the invocation ends with the 500 response of the
\* summarization and stores nothing.
C18_NoFallbackAfterPrimaryReturns ==
    HasReturned("primary") =>
        /\ ~Invoked("fallback")
        /\ ~Invoked("summarizer")
        /\ (blog_content.t = "None" \/ blog_content.s = <<>>) =>
              /\ pc = "done"
              /\ response = SummarizationFailed
              /\ response.status = 500
              /\ new_blog_article = NoRow
              /\ BlogPost = before

\* C18, reached: the primary path returned the empty string, and the
\* invocation ended with the 500 response without a call of the fallback.
C18_Witness ==
    /\ pc = "done"
    /\ HasReturned("primary")
    /\ blog_content = PyStr(<<>>)
    /\ response.status = 500
    /\ ~Invoked("fallback")

====
